---- MODULE Spec2Model ----
(***************************************************************************)
(* Model of the Mover node (au_uav_ros/src/mover.cpp): the main thread     *)
(* (init, run, move and the two publish functions) and the spinner thread  *)
(* (ros::spin dispatching all_telem_callback and gcs_command_callback one  *)
(* at a time), sharing goal_wp, ca_wp and current_state under three        *)
(* boost mutexes.                                                          *)
(*                                                                         *)
(* A double is modelled as an integer count of halves (D(1) is 1.0,        *)
(* D(1) + 1 is 1.5), so that the (int) conversion of a longitude is a real *)
(* truncation.                                                             *)
(***************************************************************************)
EXTENDS Integers, Sequences, FiniteSets, TLC

\* ------------------------------------------------------------ bounds
\* Number of messages the transport delivers to the spinner thread in a run.
MaxMsgs == 4

\* ------------------------------------------------------------ numbers
\* The double with integer value n.
D(n) == 2 * n

\* (int)d of a double d: truncation toward zero.
TruncToInt(d) == IF d >= 0 THEN d \div 2 ELSE -((-d) \div 2)

\* Constants of mover.h (not part of the sources at hand): reserved values.
EMERGENCY_PROTOCOL_LAT == D(-1000)
INVALID_GPS_COOR == D(-999)
META_START_CA_ON_LON == 1
META_STOP_LON == 2
META_START_CA_OFF_LON == 3

\* enum state
ST_RED == "ST_RED"
ST_GREEN_CA_OFF == "ST_GREEN_CA_OFF"
ST_GREEN_CA_ON == "ST_GREEN_CA_ON"
States == {ST_RED, ST_GREEN_CA_OFF, ST_GREEN_CA_ON}
\* An enum or a local that holds no value yet.
Unset == "unset"

\* ------------------------------------------------------------ Command
\* au_uav_ros::Command
Cmd(id, lat, lon, alt, par, cid) ==
  [planeID |-> id, latitude |-> lat, longitude |-> lon, altitude |-> alt,
   param |-> par, commandID |-> cid]

\* A default-constructed Command (every field of a ROS message starts at 0).
DefaultCommand == Cmd(0, 0, 0, 0, 0, 0)

\* Member-wise copy "dst = src", first and second part of the members.
CopyHead(dst, src) ==
  [dst EXCEPT !.planeID = src.planeID, !.latitude = src.latitude,
              !.longitude = src.longitude]
CopyTail(dst, src) ==
  [dst EXCEPT !.altitude = src.altitude, !.param = src.param,
              !.commandID = src.commandID]

\* Variant: one invalid coordinate is enough (|| for &&).
IsInvalidAny(com) ==
  \/ com.latitude = INVALID_GPS_COOR
  \/ com.longitude = INVALID_GPS_COOR
  \/ com.altitude = INVALID_GPS_COOR

\* Variant: the test for the invalid marker is missing.
IsInvalidNever(com) == FALSE

\* The test of line 37: the candidate is the invalid-position marker.
IsInvalid(com) ==
  /\ com.latitude = INVALID_GPS_COOR
  /\ com.longitude = INVALID_GPS_COOR
  /\ com.altitude = INVALID_GPS_COOR

\* ------------------------------------------------------------ inputs
\* planeID in test mode (line 118) and the answer of the getPlaneID service.
TestPlaneID == 999
ServiceResponses ==
  {[planeID |-> 7, initialLatitude |-> D(3), initialLongitude |-> D(4),
    initialAltitude |-> D(5)]}

\* Commands the ground station sends: for vehicle id, the three meta codes,
\* a meta code with a fraction, an unknown meta code, two goals and a goal
\* of invalid coordinates; for another vehicle, a meta command and a goal.
MetaCmd(id, lon) == Cmd(id, EMERGENCY_PROTOCOL_LAT, lon, 0, 0, 0)
\* A goal whose three coordinates carry the invalid value of line 37.
InvalidGoal(id) == Cmd(id, INVALID_GPS_COOR, INVALID_GPS_COOR, INVALID_GPS_COOR, 1, 1)
Goal1(id) == Cmd(id, D(1), D(1), D(1), 1, 1)
Goal2(id) == Cmd(id, D(2), D(2), D(2), 2, 2)
GcsInputs(id) ==
  {MetaCmd(id, D(META_START_CA_ON_LON)), MetaCmd(id, D(META_STOP_LON)),
   MetaCmd(id, D(META_START_CA_OFF_LON)),
   MetaCmd(id, D(META_START_CA_OFF_LON) + 1), MetaCmd(id, D(0)),
   Goal1(id), Goal2(id), InvalidGoal(id),
   MetaCmd(id + 1, D(META_START_CA_OFF_LON)), Goal1(id + 1)}

\* What ca.avoid(telem) may return: the invalid marker, a waypoint, or a
\* waypoint with the invalid value in two coordinates only.
InvalidCmd(id) == Cmd(id, INVALID_GPS_COOR, INVALID_GPS_COOR, INVALID_GPS_COOR, 0, 0)
Avoid1(id) == Cmd(id, D(5), D(6), D(7), 0, 2)
Avoid2(id) == Cmd(id, D(8), D(9), D(10), 0, 2)
AvoidPart(id) == Cmd(id, INVALID_GPS_COOR, INVALID_GPS_COOR, D(7), 0, 2)
AvoidResults(id) == {InvalidCmd(id), Avoid1(id), Avoid2(id), AvoidPart(id)}

\* ------------------------------------------------------------ state
VARIABLES
  mainPc,            \* position of the main thread (init, run, move, publish)
  spinPc,            \* position of the spinner thread (ros::spin, callbacks)
  ros_ok,            \* ros::ok()
  planeID,
  is_testing,
  current_state,
  goal_wp,
  ca_wp,
  goal_wp_lock,      \* owner of each boost::mutex, or Free
  ca_wp_lock,
  state_change_lock,
  temp,              \* move(): the state read under the lock
  sw,                \* move(): the value the switch branched on
  mcom,              \* local com of goalCommandPublish / caCommandPublish
  empty_ca_q,        \* local of caCommandPublish
  scom,              \* com of the callback in progress
  ca_goal,           \* argument of the last ca.setGoalWaypoint call
  ca_commands,       \* messages published on ca_commands by the tick in progress
  delivered,         \* messages delivered to the callbacks so far
  lastGoal,          \* history: value of the last completed write of goal_wp
  lastInstalled,     \* history: the candidate last pushed on ca_wp
  credit,            \* history: candidates pushed minus ca_wp entries published
  fresh,             \* history: a candidate was pushed and not taken since
  haltedPubs,        \* history: Commands published in ST_RED since it was entered
  offInstall         \* history: the last push was made outside ST_GREEN_CA_ON

vars ==
  <<mainPc, spinPc, ros_ok, planeID, is_testing, current_state, goal_wp, ca_wp,
    goal_wp_lock, ca_wp_lock, state_change_lock, temp, sw, mcom, empty_ca_q,
    scom, ca_goal, ca_commands, delivered, lastGoal, lastInstalled, credit,
    fresh, haltedPubs, offInstall>>

shared == <<current_state, goal_wp, ca_wp, ca_goal>>
locks == <<goal_wp_lock, ca_wp_lock, state_change_lock>>
mainLocals == <<temp, sw, mcom, empty_ca_q, ca_commands>>
config == <<planeID, is_testing>>
history == <<lastGoal, lastInstalled, credit, fresh, haltedPubs, offInstall>>

Free == "free"
Main == "main"
Spinner == "spinner"
\* History and ca_goal before any Command was recorded: not a value a
\* Command of the inputs takes.
None == Cmd(-1, 0, 0, 0, 0, 0)

\* boost::mutex: lock() returns once the mutex is free; unlock() frees it.
CanLock(l) == l = Free

\* Variant: unlock() is forgotten, the mutex stays with its owner.
UnlockKeep(who) == who

Unlock(who) == Free

\* Variant: goal_wp is accessed without waiting for goal_wp_lock.
GoalLockSkipped == TRUE

\* goal_wp_lock.lock() of lines 31, 88 and 198 can return.
GoalLockFree == CanLock(goal_wp_lock)

Init ==
  /\ mainPc = "init"
  /\ spinPc = "off"
  /\ ros_ok = TRUE
  /\ planeID = 0
  /\ is_testing = FALSE
  /\ current_state = Unset
  /\ goal_wp = DefaultCommand
  /\ ca_wp = <<>>
  /\ goal_wp_lock = Free
  /\ ca_wp_lock = Free
  /\ state_change_lock = Free
  /\ temp = Unset
  /\ sw = Unset
  /\ mcom = DefaultCommand
  /\ empty_ca_q = FALSE
  /\ scom = DefaultCommand
  /\ ca_goal = None
  /\ ca_commands = <<>>
  /\ delivered = 0
  /\ lastGoal = DefaultCommand
  /\ lastInstalled = None
  /\ credit = 0
  /\ fresh = FALSE
  /\ haltedPubs = 0
  /\ offInstall = FALSE

\* ------------------------------------------------------------ main thread
\* init(), lines 126-131: the fields of goal_wp the service answer sets.
SeedGoal(g, resp) ==
  [g EXCEPT !.planeID = resp.planeID,
            !.latitude = resp.initialLatitude,
            !.longitude = resp.initialLongitude,
            !.param = 2,
            !.commandID = 2]

\* Variant: run() is called whatever init returned.
AfterInitAlwaysRun(ok) == "run"

\* main(), lines 240-241: run() only if init returned true.
AfterInit(ok) == IF ok THEN "run" ELSE "exit"

\* init(n, _test) with _test set: no service call.
init_test ==
  /\ mainPc = "init"
  /\ planeID' = TestPlaneID
  /\ is_testing' = TRUE
  /\ current_state' = ST_RED
  /\ mainPc' = AfterInit(TRUE)
  /\ UNCHANGED <<spinPc, ros_ok, goal_wp, ca_wp, ca_goal, locks, mainLocals,
                 scom, delivered, history>>

\* init(n, _test) without _test, the service call succeeds.
init_service ==
  /\ mainPc = "init"
  /\ \E resp \in ServiceResponses :
       /\ planeID' = resp.planeID
       /\ goal_wp' = SeedGoal(goal_wp, resp)
       /\ lastGoal' = SeedGoal(goal_wp, resp)
  /\ is_testing' = FALSE
  /\ current_state' = ST_RED
  /\ mainPc' = AfterInit(TRUE)
  /\ UNCHANGED <<spinPc, ros_ok, ca_wp, ca_goal, locks, mainLocals, scom,
                 delivered, lastInstalled, credit, fresh, haltedPubs, offInstall>>

\* init(n, _test) without _test, the service call fails: init returns false
\* and main returns without calling run().
init_fail ==
  /\ mainPc = "init"
  /\ mainPc' = AfterInit(FALSE)
  /\ UNCHANGED <<spinPc, ros_ok, config, shared, locks, mainLocals, scom,
                 delivered, history>>

\* run(): start the spinner thread, then enter move().
run ==
  /\ mainPc = "run"
  /\ spinPc' = "spin"
  /\ mainPc' = "while"
  /\ UNCHANGED <<ros_ok, config, shared, locks, mainLocals, scom, delivered,
                 history>>

\* Variant: the loop test is inverted.
LoopGoesOnInverted(ok) == ~ok

\* move(), line 166: the loop test.
LoopGoesOn(ok) == ok

\* move(), line 166: while(ros::ok()). A new iteration starts with fresh locals.
move_while ==
  /\ mainPc = "while"
  /\ IF LoopGoesOn(ros_ok)
       THEN /\ mainPc' = "st_lock"
            /\ temp' = Unset
            /\ sw' = Unset
            /\ mcom' = DefaultCommand
            /\ empty_ca_q' = FALSE
            /\ ca_commands' = <<>>
       ELSE /\ mainPc' = "shutdown"
            /\ UNCHANGED mainLocals
  /\ UNCHANGED <<spinPc, ros_ok, config, shared, locks, scom, delivered, history>>

\* move(), line 171
move_lock ==
  /\ mainPc = "st_lock"
  /\ CanLock(state_change_lock)
  /\ state_change_lock' = Main
  /\ mainPc' = "st_read"
  /\ UNCHANGED <<spinPc, ros_ok, config, shared, goal_wp_lock, ca_wp_lock,
                 mainLocals, scom, delivered, history>>

\* move(), line 172
move_read ==
  /\ mainPc = "st_read"
  /\ temp' = current_state
  /\ mainPc' = "st_unlock"
  /\ UNCHANGED <<spinPc, ros_ok, config, shared, locks, sw, mcom, empty_ca_q,
                 ca_commands, scom, delivered, history>>

\* move(), line 173
move_unlock ==
  /\ mainPc = "st_unlock"
  /\ state_change_lock' = Unlock(Main)
  /\ mainPc' = "switch"
  /\ UNCHANGED <<spinPc, ros_ok, config, shared, goal_wp_lock, ca_wp_lock,
                 mainLocals, scom, delivered, history>>

\* The values switch(current_state) of line 175 can branch on. The read is
\* made without state_change_lock, so it races with the writes of
\* gcs_command_callback: it yields the value current_state has now, or, when
\* the read is merged with the one of line 172, the value of temp.
SwitchValues == {temp, current_state}

\* Variant: the ST_RED case has no break and falls into ST_GREEN_CA_OFF.
BranchFallThrough(st) ==
  CASE st = ST_RED -> "goal_sleep"
    [] st = ST_GREEN_CA_OFF -> "goal_sleep"
    [] st = ST_GREEN_CA_ON -> "ca_sleep"

\* Variant: the two publishing cases are exchanged.
BranchSwapped(st) ==
  CASE st = ST_RED -> "while"
    [] st = ST_GREEN_CA_OFF -> "ca_sleep"
    [] st = ST_GREEN_CA_ON -> "goal_sleep"

\* Variant: the ST_RED case runs caCommandPublish.
BranchRedToCa(st) ==
  CASE st = ST_RED -> "ca_sleep"
    [] st = ST_GREEN_CA_OFF -> "goal_sleep"
    [] st = ST_GREEN_CA_ON -> "ca_sleep"

\* Where each case of the switch goes.
Branch(st) ==
  CASE st = ST_RED -> "while"
    [] st = ST_GREEN_CA_OFF -> "goal_sleep"
    [] st = ST_GREEN_CA_ON -> "ca_sleep"

\* move(), lines 175-187
move_switch ==
  /\ mainPc = "switch"
  /\ \E st \in SwitchValues :
       /\ sw' = st
       /\ mainPc' = Branch(st)
  /\ UNCHANGED <<spinPc, ros_ok, config, shared, locks, temp, mcom, empty_ca_q,
                 ca_commands, scom, delivered, history>>

\* ros::Duration(0.25).sleep() of lines 180 and 184
move_sleep ==
  /\ mainPc \in {"goal_sleep", "ca_sleep"}
  /\ mainPc' = IF mainPc = "goal_sleep" THEN "goal_lock" ELSE "ca_lock"
  /\ UNCHANGED <<spinPc, ros_ok, config, shared, locks, mainLocals, scom,
                 delivered, history>>

\* Variant: the message is published twice.
PublishTwice(out, com) == Append(Append(out, com), com)

\* ca_commands.publish(com)
Publish(out, com) == Append(out, com)

\* History: the count of Commands published in ST_RED after a publish step
\* that takes ca_commands from out to out2.
PubsInRed(n, out, out2) ==
  IF current_state = ST_RED THEN n + Len(out2) - Len(out) ELSE n

\* goalCommandPublish(), line 198
goalCommandPublish_lock ==
  /\ mainPc = "goal_lock"
  /\ GoalLockFree
  /\ goal_wp_lock' = Main
  /\ mainPc' = "goal_read1"
  /\ UNCHANGED <<spinPc, ros_ok, config, shared, ca_wp_lock, state_change_lock,
                 mainLocals, scom, delivered, history>>

\* goalCommandPublish(), line 199: com = goal_wp, member by member
goalCommandPublish_read ==
  /\ mainPc \in {"goal_read1", "goal_read2"}
  /\ IF mainPc = "goal_read1"
       THEN /\ mcom' = CopyHead(mcom, goal_wp)
            /\ mainPc' = "goal_read2"
       ELSE /\ mcom' = CopyTail(mcom, goal_wp)
            /\ mainPc' = "goal_unlock"
  /\ UNCHANGED <<spinPc, ros_ok, config, shared, locks, temp, sw, empty_ca_q,
                 ca_commands, scom, delivered, history>>

\* goalCommandPublish(), line 200
goalCommandPublish_unlock ==
  /\ mainPc = "goal_unlock"
  /\ goal_wp_lock' = Unlock(Main)
  /\ mainPc' = "goal_publish"
  /\ UNCHANGED <<spinPc, ros_ok, config, shared, ca_wp_lock, state_change_lock,
                 mainLocals, scom, delivered, history>>

\* goalCommandPublish(), line 201
goalCommandPublish_publish ==
  /\ mainPc = "goal_publish"
  /\ ca_commands' = Publish(ca_commands, mcom)
  /\ haltedPubs' = PubsInRed(haltedPubs, ca_commands, ca_commands')
  /\ mainPc' = "while"
  /\ UNCHANGED <<spinPc, ros_ok, config, shared, locks, temp, sw, mcom,
                 empty_ca_q, scom, delivered, lastGoal, lastInstalled, credit,
                 fresh, offInstall>>

\* caCommandPublish(), line 211
caCommandPublish_lock ==
  /\ mainPc = "ca_lock"
  /\ CanLock(ca_wp_lock)
  /\ ca_wp_lock' = Main
  /\ mainPc' = "ca_check"
  /\ UNCHANGED <<spinPc, ros_ok, config, shared, goal_wp_lock, state_change_lock,
                 mainLocals, scom, delivered, history>>

\* caCommandPublish(), lines 212-213
caCommandPublish_check ==
  /\ mainPc = "ca_check"
  /\ empty_ca_q' = (ca_wp = <<>>)
  /\ mainPc' = IF ca_wp = <<>> THEN "ca_unlock" ELSE "ca_take"
  /\ UNCHANGED <<spinPc, ros_ok, config, shared, locks, temp, sw, mcom,
                 ca_commands, scom, delivered, history>>

\* Variant: front() without pop_front().
PopFrontKeep(q) == q

\* ca_wp.pop_front()
PopFront(q) == Tail(q)

\* caCommandPublish(), lines 214-215
caCommandPublish_take ==
  /\ mainPc = "ca_take"
  /\ mcom' = Head(ca_wp)
  /\ ca_wp' = PopFront(ca_wp)
  /\ fresh' = FALSE
  /\ mainPc' = "ca_unlock"
  /\ UNCHANGED <<spinPc, ros_ok, config, current_state, goal_wp, ca_goal, locks,
                 temp, sw, empty_ca_q, ca_commands, scom, delivered, lastGoal,
                 lastInstalled, credit, haltedPubs, offInstall>>

\* caCommandPublish(), line 217
caCommandPublish_unlock ==
  /\ mainPc = "ca_unlock"
  /\ ca_wp_lock' = Unlock(Main)
  /\ mainPc' = "ca_publish"
  /\ UNCHANGED <<spinPc, ros_ok, config, shared, goal_wp_lock, state_change_lock,
                 mainLocals, scom, delivered, history>>

\* Variant: com is published whether or not ca_wp held an entry.
ShouldPublishAlways(empty) == TRUE

\* Variant: com is never published.
ShouldPublishNever(empty) == FALSE

\* caCommandPublish(), line 219: publish only what was taken from ca_wp.
ShouldPublish(empty) == ~empty

\* caCommandPublish(), lines 219-220
caCommandPublish_publish ==
  /\ mainPc = "ca_publish"
  /\ IF ShouldPublish(empty_ca_q)
       THEN /\ ca_commands' = Publish(ca_commands, mcom)
            /\ credit' = credit - 1
            /\ haltedPubs' = PubsInRed(haltedPubs, ca_commands, ca_commands')
       ELSE UNCHANGED <<ca_commands, credit, haltedPubs>>
  /\ mainPc' = "while"
  /\ UNCHANGED <<spinPc, ros_ok, config, shared, locks, temp, sw, mcom,
                 empty_ca_q, scom, delivered, lastGoal, lastInstalled, fresh,
                 offInstall>>

\* run(), line 156: ros::shutdown()
run_shutdown ==
  /\ mainPc = "shutdown"
  /\ ros_ok' = FALSE
  /\ mainPc' = "join"
  /\ UNCHANGED <<spinPc, config, shared, locks, mainLocals, scom, delivered,
                 history>>

\* run(), line 157: spinner.join() returns once the spinner thread has ended.
run_join ==
  /\ mainPc = "join"
  /\ spinPc = "stopped"
  /\ mainPc' = "exit"
  /\ UNCHANGED <<spinPc, ros_ok, config, shared, locks, mainLocals, scom,
                 delivered, history>>

\* The host signals shutdown: ros::ok() turns false.
Shutdown ==
  /\ mainPc \notin {"init", "exit"}
  /\ ros_ok
  /\ ros_ok' = FALSE
  /\ UNCHANGED <<mainPc, spinPc, config, shared, locks, mainLocals, scom,
                 delivered, history>>

MainStep ==
  \/ init_test \/ init_service \/ init_fail \/ run
  \/ move_while \/ move_lock \/ move_read \/ move_unlock \/ move_switch
  \/ move_sleep
  \/ goalCommandPublish_lock \/ goalCommandPublish_read
  \/ goalCommandPublish_unlock \/ goalCommandPublish_publish
  \/ caCommandPublish_lock \/ caCommandPublish_check \/ caCommandPublish_take
  \/ caCommandPublish_unlock \/ caCommandPublish_publish
  \/ run_shutdown \/ run_join

\* ------------------------------------------------------------ spinner thread
\* spinThread(): ros::spin() returns once ros::ok() is false.
spinThread_stop ==
  /\ spinPc = "spin"
  /\ ~ros_ok
  /\ spinPc' = "stopped"
  /\ UNCHANGED <<mainPc, ros_ok, config, shared, locks, mainLocals, scom,
                 delivered, history>>

\* Variant: ca.avoid is called in test mode too.
UseAvoidAlways(testing) == TRUE

\* all_telem_callback, line 27: ca.avoid is called unless testing.
UseAvoid(testing) == ~testing

\* all_telem_callback(telem), lines 26-29: a telemetry message is dispatched.
\* Outside test mode com is what ca.avoid(telem) returns.
all_telem_callback ==
  /\ spinPc = "spin"
  /\ ros_ok
  /\ delivered < MaxMsgs
  /\ delivered' = delivered + 1
  /\ IF UseAvoid(is_testing)
       THEN \E c \in AvoidResults(planeID) :
              /\ scom' = c
              /\ spinPc' = "telem_check"
       ELSE /\ scom' = DefaultCommand
            /\ spinPc' = "tg_lock"
  /\ UNCHANGED <<mainPc, ros_ok, config, shared, locks, mainLocals, history>>

\* all_telem_callback, line 31
all_telem_callback_goal_lock ==
  /\ spinPc = "tg_lock"
  /\ GoalLockFree
  /\ goal_wp_lock' = Spinner
  /\ spinPc' = "tg_read1"
  /\ UNCHANGED <<mainPc, ros_ok, config, shared, ca_wp_lock, state_change_lock,
                 mainLocals, scom, delivered, history>>

\* all_telem_callback, line 32: com = goal_wp, member by member
all_telem_callback_goal_read ==
  /\ spinPc \in {"tg_read1", "tg_read2"}
  /\ IF spinPc = "tg_read1"
       THEN /\ scom' = CopyHead(scom, goal_wp)
            /\ spinPc' = "tg_read2"
       ELSE /\ scom' = CopyTail(scom, goal_wp)
            /\ spinPc' = "tg_unlock"
  /\ UNCHANGED <<mainPc, ros_ok, config, shared, locks, mainLocals, delivered,
                 history>>

\* all_telem_callback, line 33
all_telem_callback_goal_unlock ==
  /\ spinPc = "tg_unlock"
  /\ goal_wp_lock' = Unlock(Spinner)
  /\ spinPc' = "telem_check"
  /\ UNCHANGED <<mainPc, ros_ok, config, shared, ca_wp_lock, state_change_lock,
                 mainLocals, scom, delivered, history>>

\* all_telem_callback, lines 37-41: an invalid candidate is ignored and the
\* callback returns; any other goes on to ca_wp.
all_telem_callback_check ==
  /\ spinPc = "telem_check"
  /\ spinPc' = IF IsInvalid(scom) THEN "ret" ELSE "tca_lock"
  /\ UNCHANGED <<mainPc, ros_ok, config, shared, locks, mainLocals, scom,
                 delivered, history>>

\* all_telem_callback, line 41
all_telem_callback_ca_lock ==
  /\ spinPc = "tca_lock"
  /\ CanLock(ca_wp_lock)
  /\ ca_wp_lock' = Spinner
  /\ spinPc' = "tca_clear"
  /\ UNCHANGED <<mainPc, ros_ok, config, shared, goal_wp_lock, state_change_lock,
                 mainLocals, scom, delivered, history>>

\* Variant: the clear() is missing, push_back accumulates.
ClearNothing(q) == q

\* ca_wp.clear()
Clear(q) == <<>>

\* all_telem_callback, line 42
all_telem_callback_clear ==
  /\ spinPc = "tca_clear"
  /\ ca_wp' = Clear(ca_wp)
  /\ spinPc' = "tca_push"
  /\ UNCHANGED <<mainPc, ros_ok, config, current_state, goal_wp, ca_goal, locks,
                 mainLocals, scom, delivered, history>>

\* all_telem_callback, line 43
all_telem_callback_push ==
  /\ spinPc = "tca_push"
  /\ ca_wp' = Append(ca_wp, scom)
  /\ lastInstalled' = scom
  /\ credit' = credit + 1
  /\ fresh' = TRUE
  /\ offInstall' = (current_state # ST_GREEN_CA_ON)
  /\ spinPc' = "tca_unlock"
  /\ UNCHANGED <<mainPc, ros_ok, config, current_state, goal_wp, ca_goal, locks,
                 mainLocals, scom, delivered, lastGoal, haltedPubs>>

\* all_telem_callback, line 44
all_telem_callback_ca_unlock ==
  /\ spinPc = "tca_unlock"
  /\ ca_wp_lock' = Unlock(Spinner)
  /\ spinPc' = "ret"
  /\ UNCHANGED <<mainPc, ros_ok, config, shared, goal_wp_lock, state_change_lock,
                 mainLocals, scom, delivered, history>>

\* Lines 46 and 97: the callback returns to ros::spin().
callback_return ==
  /\ spinPc = "ret"
  /\ spinPc' = "spin"
  /\ scom' = DefaultCommand
  /\ UNCHANGED <<mainPc, ros_ok, config, shared, locks, mainLocals, delivered,
                 history>>

\* Variant: the planeID test is missing.
ForMeAlways(id, com) == TRUE

\* gcs_command_callback, line 56: the command is for this plane.
ForMe(id, com) == id = com.planeID

\* Variant: the test for a meta command is missing.
IsMetaNever(com) == FALSE

\* gcs_command_callback, line 58: the command is a meta command.
IsMeta(com) == com.latitude = EMERGENCY_PROTOCOL_LAT

\* Variant: the two start cases assign each other's state.
MetaTargetSwapped(incomingCommand) ==
  CASE incomingCommand = META_START_CA_ON_LON -> ST_GREEN_CA_OFF
    [] incomingCommand = META_STOP_LON -> ST_RED
    [] incomingCommand = META_START_CA_OFF_LON -> ST_GREEN_CA_ON
    [] OTHER -> Unset

\* gcs_command_callback, lines 59-83: the state the case of incomingCommand
\* assigns, Unset when no case matches.
MetaTarget(incomingCommand) ==
  CASE incomingCommand = META_START_CA_ON_LON -> ST_GREEN_CA_ON
    [] incomingCommand = META_STOP_LON -> ST_RED
    [] incomingCommand = META_START_CA_OFF_LON -> ST_GREEN_CA_OFF
    [] OTHER -> Unset

\* gcs_command_callback(com), line 53: a command is dispatched.
gcs_command_callback ==
  /\ spinPc = "spin"
  /\ ros_ok
  /\ delivered < MaxMsgs
  /\ delivered' = delivered + 1
  /\ \E c \in GcsInputs(planeID) : scom' = c
  /\ spinPc' = "gcs"
  /\ UNCHANGED <<mainPc, ros_ok, config, shared, locks, mainLocals, history>>

\* gcs_command_callback, lines 56-61, 69, 76, 85: where the tests lead. The
\* callback returns at once for another plane's command and for a meta
\* command no case matches.
GcsBranch(id, com) ==
  IF ~ForMe(id, com) THEN "ret"
  ELSE IF IsMeta(com)
    THEN IF MetaTarget(TruncToInt(com.longitude)) = Unset THEN "ret" ELSE "gst_lock"
    ELSE "gg_lock"

\* gcs_command_callback, lines 56-61, 69, 76, 85
gcs_command_callback_check ==
  /\ spinPc = "gcs"
  /\ spinPc' = GcsBranch(planeID, scom)
  /\ UNCHANGED <<mainPc, ros_ok, config, shared, locks, mainLocals, scom,
                 delivered, history>>

\* gcs_command_callback, lines 64, 72, 79
gcs_command_callback_state_lock ==
  /\ spinPc = "gst_lock"
  /\ CanLock(state_change_lock)
  /\ state_change_lock' = Spinner
  /\ spinPc' = "gst_write"
  /\ UNCHANGED <<mainPc, ros_ok, config, shared, goal_wp_lock, ca_wp_lock,
                 mainLocals, scom, delivered, history>>

\* gcs_command_callback, lines 65, 73, 80
gcs_command_callback_state_write ==
  /\ spinPc = "gst_write"
  /\ current_state' = MetaTarget(TruncToInt(scom.longitude))
  /\ haltedPubs' = IF current_state = ST_RED /\ current_state' = ST_RED
                     THEN haltedPubs ELSE 0
  /\ UNCHANGED offInstall
  /\ spinPc' = "gst_unlock"
  /\ UNCHANGED <<mainPc, ros_ok, config, goal_wp, ca_wp, ca_goal, locks,
                 mainLocals, scom, delivered, lastGoal, lastInstalled, credit,
                 fresh>>

\* gcs_command_callback, lines 66-67, 74-75, 81-82: unlock and break
gcs_command_callback_state_unlock ==
  /\ spinPc = "gst_unlock"
  /\ state_change_lock' = Unlock(Spinner)
  /\ spinPc' = "ret"
  /\ UNCHANGED <<mainPc, ros_ok, config, shared, goal_wp_lock, ca_wp_lock,
                 mainLocals, scom, delivered, history>>

\* gcs_command_callback, line 88
gcs_command_callback_goal_lock ==
  /\ spinPc = "gg_lock"
  /\ GoalLockFree
  /\ goal_wp_lock' = Spinner
  /\ spinPc' = "gg_write1"
  /\ UNCHANGED <<mainPc, ros_ok, config, shared, ca_wp_lock, state_change_lock,
                 mainLocals, scom, delivered, history>>

\* gcs_command_callback, line 89: goal_wp = com, member by member
gcs_command_callback_goal_write ==
  /\ spinPc \in {"gg_write1", "gg_write2"}
  /\ IF spinPc = "gg_write1"
       THEN /\ goal_wp' = CopyHead(goal_wp, scom)
            /\ spinPc' = "gg_write2"
            /\ UNCHANGED lastGoal
       ELSE /\ goal_wp' = CopyTail(goal_wp, scom)
            /\ spinPc' = "gg_unlock"
            /\ lastGoal' = scom
  /\ UNCHANGED <<mainPc, ros_ok, config, current_state, ca_wp, ca_goal, locks,
                 mainLocals, scom, delivered, lastInstalled, credit, fresh,
                 haltedPubs, offInstall>>

\* gcs_command_callback, line 90
gcs_command_callback_goal_unlock ==
  /\ spinPc = "gg_unlock"
  /\ goal_wp_lock' = Unlock(Spinner)
  /\ spinPc' = "gg_forward"
  /\ UNCHANGED <<mainPc, ros_ok, config, shared, ca_wp_lock, state_change_lock,
                 mainLocals, scom, delivered, history>>

\* gcs_command_callback, line 93: ca.setGoalWaypoint(com)
gcs_command_callback_forward ==
  /\ spinPc = "gg_forward"
  /\ ca_goal' = scom
  /\ spinPc' = "ret"
  /\ UNCHANGED <<mainPc, ros_ok, config, current_state, goal_wp, ca_wp, locks,
                 mainLocals, scom, delivered, history>>

SpinnerStep ==
  \/ spinThread_stop
  \/ all_telem_callback \/ all_telem_callback_goal_lock
  \/ all_telem_callback_goal_read \/ all_telem_callback_goal_unlock
  \/ all_telem_callback_check \/ all_telem_callback_ca_lock
  \/ all_telem_callback_clear \/ all_telem_callback_push
  \/ all_telem_callback_ca_unlock \/ callback_return
  \/ gcs_command_callback \/ gcs_command_callback_check
  \/ gcs_command_callback_state_lock
  \/ gcs_command_callback_state_write \/ gcs_command_callback_state_unlock
  \/ gcs_command_callback_goal_lock \/ gcs_command_callback_goal_write
  \/ gcs_command_callback_goal_unlock \/ gcs_command_callback_forward

Next == MainStep \/ SpinnerStep \/ Shutdown

Spec == Init /\ [][Next]_vars

\* A callback that ros::spin has dispatched, or the end of ros::spin: steps
\* the spinner thread takes by itself (the arrival of a message is not one).
SpinnerRuns ==
  \/ spinPc # "spin" /\ SpinnerStep
  \/ spinThread_stop

\* Both threads are scheduled: a thread that can take a step, and stays able
\* to, takes it.
FairSpec == Spec /\ WF_vars(MainStep) /\ WF_vars(SpinnerRuns)

\* ------------------------------------------------------------ properties
\* Positions of the main thread inside each publishing case, and after a tick.
MainGoalPcs ==
  {"goal_sleep", "goal_lock", "goal_read1", "goal_read2", "goal_unlock",
   "goal_publish"}
MainCaPcs ==
  {"ca_sleep", "ca_lock", "ca_check", "ca_take", "ca_unlock", "ca_publish"}
TickDonePcs == {"while", "shutdown", "join", "exit"}

\* C1, as stated: no Command is published in a state where current_state is
\* ST_RED, however the stop command interleaves with the loop.
C1_NoPublishWhileHalted ==
  [][(ca_commands' # ca_commands /\ ca_commands' # <<>>)
       => current_state # ST_RED]_vars

\* C1, amended: an iteration of move() whose switch takes the ST_RED case
\* publishes nothing and goes straight back to the loop test; every Command
\* is published by an iteration whose switch took one of the two green cases.
C1_HaltedBranchEmitsNothing ==
  /\ sw = ST_RED => (ca_commands = <<>> /\ mainPc \in TickDonePcs)
  /\ mainPc \in MainGoalPcs \cup MainCaPcs => sw \in {ST_GREEN_CA_OFF, ST_GREEN_CA_ON}
  /\ ca_commands # <<>> => sw \in {ST_GREEN_CA_OFF, ST_GREEN_CA_ON}

\* C1 witness: a ST_RED iteration has ended silent although a goal was
\* received and ca_wp holds an entry.
C1_Witness ==
  /\ sw = ST_RED
  /\ mainPc = "while"
  /\ current_state = ST_RED
  /\ ca_wp # <<>>
  /\ goal_wp = Goal1(planeID)
  /\ ca_commands = <<>>

\* The state the table of the specification gives for a meta command.
C2_Table(com) ==
  CASE TruncToInt(com.longitude) = META_START_CA_ON_LON -> ST_GREEN_CA_ON
    [] TruncToInt(com.longitude) = META_STOP_LON -> ST_RED
    [] TruncToInt(com.longitude) = META_START_CA_OFF_LON -> ST_GREEN_CA_OFF
    [] OTHER -> Unset

\* C2: after init, current_state changes only in the write of
\* gcs_command_callback for a meta command carrying this plane's id; that
\* write, whatever the state before, assigns the state the table gives for
\* the command's code; and a meta command for this plane with one of the
\* three codes always goes on to that write.
C2_ModeFollowsMetaCommand ==
  [][/\ (current_state # Unset /\ current_state' # current_state)
          => spinPc = "gst_write"
     /\ (spinPc = "gst_write" /\ spinPc' # spinPc)
          => /\ scom.planeID = planeID
             /\ scom.latitude = EMERGENCY_PROTOCOL_LAT
             /\ C2_Table(scom) \in States
             /\ current_state' = C2_Table(scom)
     /\ (/\ spinPc = "gcs" /\ spinPc' # spinPc
         /\ scom.planeID = planeID
         /\ scom.latitude = EMERGENCY_PROTOCOL_LAT
         /\ C2_Table(scom) \in States)
          => spinPc' = "gst_lock"]_vars

\* C2 witness: the start-direct command has just been written while the
\* main thread is in an iteration that branched on ST_GREEN_CA_ON.
C2_Witness ==
  /\ spinPc = "gst_unlock"
  /\ scom = MetaCmd(planeID, D(META_START_CA_OFF_LON))
  /\ current_state = ST_GREEN_CA_OFF
  /\ temp = ST_GREEN_CA_ON
  /\ sw = ST_GREEN_CA_ON
  /\ mainPc = "ca_sleep"

\* C3: a completed read of goal_wp (by goalCommandPublish, or by
\* all_telem_callback in test mode) holds the whole value of the last
\* completed write, or the value init left when there was none; outside a
\* write in progress goal_wp is that value.
C3_GoalReadsLastWrite ==
  /\ mainPc = "goal_unlock" => mcom = lastGoal
  /\ spinPc = "tg_unlock" => scom = lastGoal
  /\ spinPc # "gg_write2" => goal_wp = lastGoal

\* C3 witness: goalCommandPublish has read the second goal whole while the
\* callback waits for the lock to write the first goal over it.
C3_Witness ==
  /\ mainPc = "goal_unlock"
  /\ mcom = Goal2(planeID)
  /\ spinPc = "gg_lock"
  /\ scom = Goal1(planeID)

\* C4: ca_wp never holds more than one Command, and once the callback has
\* cleared and pushed, ca_wp holds exactly the candidate just pushed.
C4_QueueAtMostOne ==
  /\ Len(ca_wp) <= 1
  /\ spinPc = "tca_unlock" => ca_wp = <<scom>>

\* C4 witness: two candidates were pushed and none was popped (only two
\* messages were delivered, so the state never left ST_RED); ca_wp holds the
\* second alone.
C4_Witness ==
  /\ spinPc = "tca_unlock"
  /\ delivered = 2
  /\ credit = 2
  /\ scom = Avoid2(planeID)
  /\ ca_wp = <<Avoid2(planeID)>>

\* C5: when caCommandPublish leaves its locked section ca_wp is empty; if it
\* found ca_wp empty nothing was pending and it took nothing; if not, it took
\* the candidate pushed last; and between the locked sections ca_wp holds
\* exactly the candidate pushed since the last take, or nothing.
C5_PopAtomic ==
  /\ mainPc = "ca_unlock" => ca_wp = <<>>
  /\ (mainPc = "ca_unlock" /\ empty_ca_q) => (mcom = DefaultCommand /\ ~fresh)
  /\ (mainPc = "ca_unlock" /\ ~empty_ca_q) => mcom = lastInstalled
  /\ ca_wp_lock = Free => ca_wp = (IF fresh THEN <<lastInstalled>> ELSE <<>>)

\* C5 witness: the pop took the first candidate and left ca_wp empty while
\* the callback waits for the lock to push the second.
C5_Witness ==
  /\ mainPc = "ca_unlock"
  /\ ~empty_ca_q
  /\ mcom = Avoid1(planeID)
  /\ ca_wp = <<>>
  /\ spinPc = "tca_lock"
  /\ scom = Avoid2(planeID)

\* C6: an iteration that takes the ST_GREEN_CA_OFF case publishes exactly
\* one Command, the value goal_wp had when it was read after the sleep, and
\* no step of it changes ca_wp.
C6_DirectGoalTick ==
  /\ [](sw = ST_GREEN_CA_OFF =>
          \/ mainPc \in MainGoalPcs /\ ca_commands = <<>>
          \/ mainPc \in TickDonePcs /\ ca_commands = <<mcom>>)
  /\ [][(mainPc \in MainGoalPcs /\ mainPc' # mainPc) =>
          /\ sw = ST_GREEN_CA_OFF
          /\ ca_wp' = ca_wp
          /\ (mainPc = "goal_read2" => mcom' = goal_wp)
          /\ (mainPc \in {"goal_unlock", "goal_publish"} => mcom' = mcom)]_vars

\* C6 witness: a ST_GREEN_CA_OFF iteration has published the goal, and only
\* it, while ca_wp holds an entry.
C6_Witness ==
  /\ sw = ST_GREEN_CA_OFF
  /\ mainPc = "while"
  /\ ca_commands = <<Goal1(planeID)>>
  /\ ca_wp = <<Avoid1(planeID)>>

\* C7: an iteration that takes the ST_GREEN_CA_ON case publishes the entry
\* it took from ca_wp, once, and nothing when it found ca_wp empty; the entry
\* taken is the candidate pushed last, and it is there to be taken whenever a
\* candidate was pushed since the last take; entries published never
\* outnumber candidates pushed.
C7_AvoidTick ==
  /\ credit >= 0
  /\ (sw = ST_GREEN_CA_ON /\ mainPc \in MainCaPcs) => ca_commands = <<>>
  /\ (sw = ST_GREEN_CA_ON /\ mainPc \in TickDonePcs)
       => ca_commands = (IF empty_ca_q THEN <<>> ELSE <<mcom>>)
  /\ mainPc \in MainCaPcs => sw = ST_GREEN_CA_ON
  /\ (mainPc = "ca_check" /\ fresh) => ca_wp = <<lastInstalled>>
  /\ mainPc = "ca_take" => (fresh /\ ~empty_ca_q /\ ca_wp = <<lastInstalled>>)
  /\ (mainPc = "ca_unlock" /\ ~empty_ca_q) => (mcom = lastInstalled /\ ~fresh)
  /\ (mainPc \in {"ca_unlock", "ca_publish"} /\ empty_ca_q) => mcom = DefaultCommand

\* C7 witness: a ST_GREEN_CA_ON iteration found ca_wp empty and published
\* nothing, after an earlier one published the one candidate ever pushed.
C7_Witness ==
  /\ sw = ST_GREEN_CA_ON
  /\ mainPc = "while"
  /\ empty_ca_q
  /\ ca_commands = <<>>
  /\ lastInstalled = Avoid1(planeID)
  /\ credit = 0
  /\ goal_wp = Goal1(planeID)

\* Number of mutexes a thread holds.
C8_Held(who) ==
  (IF goal_wp_lock = who THEN 1 ELSE 0) + (IF ca_wp_lock = who THEN 1 ELSE 0)
    + (IF state_change_lock = who THEN 1 ELSE 0)

\* C8: neither thread ever holds two mutexes; a thread holds a mutex exactly
\* while it is between that mutex's lock() and unlock(); and until main has
\* returned, one of the two threads can take a step.
C8_NoDeadlock ==
  /\ C8_Held(Main) <= 1
  /\ C8_Held(Spinner) <= 1
  /\ goal_wp_lock = Main <=> mainPc \in {"goal_read1", "goal_read2", "goal_unlock"}
  /\ ca_wp_lock = Main <=> mainPc \in {"ca_check", "ca_take", "ca_unlock"}
  /\ state_change_lock = Main <=> mainPc \in {"st_read", "st_unlock"}
  /\ goal_wp_lock = Spinner
       <=> spinPc \in {"tg_read1", "tg_read2", "tg_unlock", "gg_write1",
                       "gg_write2", "gg_unlock"}
  /\ ca_wp_lock = Spinner <=> spinPc \in {"tca_clear", "tca_push", "tca_unlock"}
  /\ state_change_lock = Spinner <=> spinPc \in {"gst_write", "gst_unlock"}
  /\ mainPc # "exit" => ENABLED (MainStep \/ SpinnerStep)

\* C8 witness: the main thread waits for goal_wp_lock while the callback,
\* holding it, is in the middle of its write.
C8_Witness ==
  /\ mainPc = "goal_lock"
  /\ goal_wp_lock = Spinner
  /\ spinPc = "gg_write2"

\* C9, as stated: the case an iteration of move() takes is the one of the
\* state it read into temp under state_change_lock.
C9_BranchOnLockedSnapshot == sw # Unset => sw = temp

\* C10: gcs_command_callback with a command carrying another plane's id
\* returns at its first test, and neither that step nor the return changes
\* current_state, goal_wp, ca_wp or what the avoidance object was given.
C10_ForeignCommandDiscarded ==
  [][/\ (spinPc = "gcs" /\ scom.planeID # planeID /\ spinPc' # spinPc)
          => (spinPc' = "ret" /\ UNCHANGED shared)
     /\ (spinPc = "ret" /\ spinPc' # spinPc)
          => (spinPc' = "spin" /\ UNCHANGED shared)]_vars

\* C10 witness: a start-direct meta command for another plane has been
\* through the callback and the state is still ST_GREEN_CA_ON.
C10_Witness ==
  /\ spinPc = "ret"
  /\ scom = MetaCmd(planeID + 1, D(META_START_CA_OFF_LON))
  /\ current_state = ST_GREEN_CA_ON
  /\ ca_goal = Goal1(planeID)

\* Positions of the spinner thread inside gcs_command_callback's state case.
SpinStatePcs == {"gst_lock", "gst_write", "gst_unlock"}

\* C11: while gcs_command_callback handles a meta command for this plane no
\* step of it changes goal_wp or ca_wp or calls ca.setGoalWaypoint, and it
\* never enters the goal branch; when (int)longitude is none of the three
\* codes it returns at once and current_state is unchanged too. goal_wp
\* never holds the meta latitude.
C11_MetaChangesOnlyMode ==
  /\ [](goal_wp.latitude # EMERGENCY_PROTOCOL_LAT)
  /\ [][(/\ spinPc \in {"gcs", "ret"} \cup SpinStatePcs
         /\ spinPc' # spinPc
         /\ scom.planeID = planeID
         /\ scom.latitude = EMERGENCY_PROTOCOL_LAT)
          => /\ UNCHANGED <<goal_wp, ca_wp, ca_goal>>
             /\ spinPc' \in {"ret", "spin"} \cup SpinStatePcs
             /\ C2_Table(scom) = Unset
                  => (current_state' = current_state /\ spinPc' \in {"ret", "spin"})]_vars

\* C11 witness: a meta command with an unknown code has been through the
\* callback; the state is still ST_GREEN_CA_ON, the goal and the pending
\* correction are as they were.
C11_Witness ==
  /\ spinPc = "ret"
  /\ scom = MetaCmd(planeID, D(0))
  /\ current_state = ST_GREEN_CA_ON
  /\ goal_wp = Goal1(planeID)
  /\ ca_goal = Goal1(planeID)
  /\ ca_wp = <<Avoid1(planeID)>>

\* Positions of the spinner thread inside all_telem_callback's push.
SpinPushPcs == {"tca_lock", "tca_clear", "tca_push", "tca_unlock"}

\* C12: at the test of the candidate, the callback returns with ca_wp,
\* current_state and goal_wp unchanged when latitude, longitude and altitude
\* all equal INVALID_GPS_COOR, and goes on to the push for any other
\* candidate; the push leaves that candidate as the only entry of ca_wp.
C12_InvalidCandidateIgnored ==
  /\ [](spinPc = "tca_unlock" => ca_wp = <<scom>>)
  /\ [][(spinPc = "telem_check" /\ spinPc' # spinPc)
          => IF /\ scom.latitude = INVALID_GPS_COOR
                /\ scom.longitude = INVALID_GPS_COOR
                /\ scom.altitude = INVALID_GPS_COOR
               THEN spinPc' = "ret" /\ UNCHANGED shared
               ELSE spinPc' = "tca_lock" /\ UNCHANGED shared]_vars
  /\ [][(spinPc \in SpinPushPcs /\ spinPc' # spinPc)
          => UNCHANGED <<current_state, goal_wp, ca_goal, scom>>]_vars

\* C12 witness: the invalid marker has been through the test and the
\* callback returns; the correction pushed before is still in ca_wp.
C12_Witness ==
  /\ spinPc = "ret"
  /\ scom = InvalidCmd(planeID)
  /\ ca_wp = <<Avoid1(planeID)>>
  /\ fresh

\* C13: when the service call fails (init leaves current_state without a
\* value) main returns: it stays at its end, the spinner thread is never
\* started, no message is delivered to a callback and nothing is published.
C13_FailedInitStops ==
  /\ [](current_state = Unset =>
          /\ mainPc \in {"init", "exit"}
          /\ spinPc = "off"
          /\ delivered = 0
          /\ ca_commands = <<>>
          /\ ca_wp = <<>>
          /\ goal_wp = DefaultCommand)
  /\ [][mainPc = "exit" => mainPc' = "exit"]_vars

\* C13 witness: init has failed and main has returned.
C13_Witness ==
  /\ mainPc = "exit"
  /\ current_state = Unset
  /\ spinPc = "off"

\* C14, as stated: once init has succeeded with the service's answer, and
\* before run() starts anything, current_state is ST_RED and goal_wp carries
\* the plane's id, the latitude, longitude and altitude of the answer and
\* command kind 2.
C14_SeededFromService ==
  (mainPc = "run" /\ ~is_testing) =>
    /\ current_state = ST_RED
    /\ \E resp \in ServiceResponses :
         /\ planeID = resp.planeID
         /\ goal_wp.planeID = resp.planeID
         /\ goal_wp.latitude = resp.initialLatitude
         /\ goal_wp.longitude = resp.initialLongitude
         /\ goal_wp.altitude = resp.initialAltitude
         /\ goal_wp.commandID = 2

\* True when the three coordinates of com are the invalid value.
C15_Sentinel(com) ==
  /\ com.latitude = INVALID_GPS_COOR
  /\ com.longitude = INVALID_GPS_COOR
  /\ com.altitude = INVALID_GPS_COOR

\* C15, as stated: an entry of ca_wp leaves it only in the pop of
\* caCommandPublish.
C15_OnlyPopRemoves ==
  [][(ca_wp # <<>> /\ ca_wp' # ca_wp) => mainPc = "ca_take"]_vars

\* C15, amended: an entry of ca_wp leaves it either in the pop of
\* caCommandPublish, which takes it, or in the clear() of all_telem_callback,
\* which is always followed by the push of a newer candidate that is not the
\* invalid marker; no other step, and no step of gcs_command_callback,
\* changes ca_wp.
C15_RemovedByPopOrReplaced ==
  /\ [](spinPc \in {"tca_clear", "tca_push"} => ~C15_Sentinel(scom))
  /\ [](spinPc = "tca_push" => ca_wp = <<>>)
  /\ [][(ca_wp # <<>> /\ ca_wp' # ca_wp)
          => \/ /\ mainPc = "ca_take" /\ mainPc' = "ca_unlock"
                /\ mcom' = Head(ca_wp)
                /\ spinPc' = spinPc
             \/ /\ spinPc = "tca_clear" /\ spinPc' = "tca_push"
                /\ mainPc' = mainPc]_vars

\* C15 witness: the callback has cleared the first candidate, which no pop
\* had taken, and is about to push the second.
C15_Witness ==
  /\ spinPc = "tca_push"
  /\ ca_wp = <<>>
  /\ lastInstalled = Avoid1(planeID)
  /\ fresh
  /\ scom = Avoid2(planeID)


\* Positions of the main thread after it has left the loop of move().
MainLeftPcs == {"shutdown", "join", "exit"}

\* Positions of the main thread inside one tick of the loop.
MainTickPcs == MainGoalPcs \cup MainCaPcs \cup {"st_lock", "st_read", "st_unlock", "switch"}

\* C16: the main thread leaves the loop of move() only from the loop test
\* and only when ros::ok() is false; a tick in progress goes on to the loop
\* test and never leaves the loop from its middle; once ros::ok() is false
\* no new tick starts, the loop test leads out, and main returns from run()
\* only when the spinner thread has stopped (or was never started).
C16_LeavesOnlyAtLoopTest ==
  /\ [](mainPc \in {"join", "exit"} /\ current_state # Unset => ~ros_ok)
  /\ [](mainPc = "exit" => spinPc \in {"off", "stopped"})
  /\ [](mainPc = "exit" /\ current_state # Unset => spinPc = "stopped")
  /\ [][(mainPc \notin MainLeftPcs /\ mainPc' \in MainLeftPcs /\ current_state # Unset)
          => mainPc = "while" /\ ~ros_ok /\ mainPc' = "shutdown"]_vars
  /\ [][(mainPc \in MainTickPcs /\ mainPc' # mainPc)
          => mainPc' \in MainTickPcs \cup {"while"}]_vars
  /\ [][(mainPc = "while" /\ mainPc' # mainPc)
          => mainPc' = IF ros_ok THEN "st_lock" ELSE "shutdown"]_vars

\* C16 witness: shutdown was signalled, the last tick published its Command,
\* the loop was left and the spinner thread is joined.
C16_Witness ==
  /\ mainPc = "exit" /\ spinPc = "stopped" /\ ~ros_ok
  /\ sw = ST_GREEN_CA_OFF /\ ca_commands = <<lastGoal>>


\* Under FairSpec: once ros::ok() is false, main returns from run() with the
\* spinner thread stopped.
C16_TerminatesAfterShutdown ==
  (~ros_ok) ~> (mainPc = "exit" /\ spinPc = "stopped")

\* Positions of all_telem_callback at which com is the settled candidate.
SpinCandidatePcs == {"telem_check", "tca_lock", "tca_clear", "tca_push"}

\* C17: in test mode all_telem_callback never takes its candidate from
\* ca.avoid: the candidate reaches the test of line 37 only through the
\* locked read of goal_wp and equals goal_wp when goal_wp_lock is released;
\* it is unchanged up to the install, which leaves the queue holding exactly
\* the candidate; a candidate with the invalid coordinates is not installed;
\* and a tick of the avoidance branch publishes the installed value.
C17_BypassUsesGoal ==
  /\ [](is_testing /\ spinPc = "tg_unlock"
          => scom = goal_wp /\ goal_wp_lock = Spinner)
  /\ [](is_testing /\ spinPc \in {"tca_lock", "tca_clear", "tca_push"}
          => ~IsInvalid(scom))
  /\ [][(is_testing /\ mainPc = "ca_take" /\ mainPc' # mainPc)
          => mcom' = lastInstalled]_vars
  /\ [][(is_testing /\ mainPc = "ca_publish" /\ mainPc' # mainPc)
          => ca_commands' = IF empty_ca_q THEN <<>> ELSE <<mcom>>]_vars
  /\ [][(is_testing /\ spinPc' = "telem_check" /\ spinPc # "telem_check")
          => spinPc = "tg_unlock" /\ scom' = goal_wp]_vars
  /\ [][(is_testing /\ spinPc \in SpinCandidatePcs /\ spinPc' \in SpinCandidatePcs)
          => scom' = scom]_vars
  /\ [][(is_testing /\ spinPc = "tca_push" /\ spinPc' # spinPc)
          => ca_wp' = <<scom>> /\ lastInstalled' = scom]_vars
  /\ [][(is_testing /\ spinPc = "telem_check" /\ spinPc' # spinPc /\ IsInvalid(scom))
          => spinPc' = "ret" /\ ca_wp' = ca_wp]_vars

\* C17 witness: in test mode a tick of the avoidance branch has published a
\* goal the ground station sent, which the telemetry handler had installed.
C17_Witness ==
  /\ is_testing /\ mainPc = "while" /\ sw = ST_GREEN_CA_ON
  /\ ca_commands = <<Goal1(planeID)>> /\ lastInstalled = Goal1(planeID)

\* In test mode an invalid-valued goal has been the candidate and was dropped.
C17_SentinelSeen ==
  is_testing /\ spinPc = "ret" /\ IsInvalid(scom) /\ goal_wp = scom


\* C18: from the write of ST_RED by a stop command until the next write of
\* another state, the loop of move() publishes at most one Command, and a
\* publish made while current_state is ST_RED comes from a tick that took a
\* publishing branch at its switch.
C18_AtMostOneAfterStop ==
  /\ [](current_state = ST_RED => haltedPubs <= 1)
  /\ [][(current_state = ST_RED /\ Len(ca_commands') > Len(ca_commands))
          => /\ haltedPubs = 0 /\ haltedPubs' = 1
             /\ sw \in {ST_GREEN_CA_OFF, ST_GREEN_CA_ON}]_vars

\* C18 witness: after a stop command one Command was published by the tick
\* in flight, and a later tick has taken the ST_RED branch and published
\* nothing.
C18_Witness ==
  /\ current_state = ST_RED /\ haltedPubs = 1 /\ spinPc = "spin"
  /\ mainPc = "while" /\ sw = ST_RED /\ ca_commands = <<>>


C20_DirectGoal == current_state = ST_GREEN_CA_OFF /\ ros_ok
C20_AvoidGuided == current_state = ST_GREEN_CA_ON /\ ros_ok

C20_GoalWitness ==
  /\ C20_DirectGoal /\ delivered = MaxMsgs /\ spinPc = "spin"
  /\ mainPc = "while" /\ sw = ST_GREEN_CA_OFF /\ ca_commands = <<Goal2(planeID)>>

====
